---- MODULE Spec2Model ----
(***************************************************************************)
(* A model of go.spiff.io/flagenv: key functions (keys.go), lookup         *)
(* functions (lookup.go) and the Loader (flagenv.go).                      *)
(*                                                                         *)
(* A Go string is a sequence of one-rune strings.  A KeyFunc or a          *)
(* LookupFunc is a closure; it is modelled by the chain of constructors    *)
(* that built it, outermost first, and evaluated by EvalKey / EvalLookup.  *)
(***************************************************************************)
EXTENDS Integers, Sequences, FiniteSets, TLC

----------------------------------------------------------------------------
(* Bounds *)

\* longest string handed to a key function in the key-function specification
MaxLen == 3

\* number of Loader operations in one behaviour
MaxCalls == 2

\* number of consecutive indices, from base on, that a backing map of the
\* lookup specification may hold
MaxIdx == 3

----------------------------------------------------------------------------
(* Runes and strings *)

\* the rune -1: "last" before the first rune, and strings.Map's "drop this rune"
NoRune == "NONE"

LowerLetters == {"a", "b", "p"}
UpperLetters == {"A", "B", "P"}
DigitString == <<"0", "1", "2", "3", "4", "5", "6", "7", "8", "9">>
Digits == {DigitString[i] : i \in 1..10}

\* unicode.ToUpper / unicode.ToLower on the runes of the model
ToUpperRune(r) ==
    CASE r = "a" -> "A"
      [] r = "b" -> "B"
      [] r = "p" -> "P"
      [] OTHER -> r

ToLowerRune(r) ==
    CASE r = "A" -> "a"
      [] r = "B" -> "b"
      [] r = "P" -> "p"
      [] OTHER -> r

ToUpper(s) == [i \in 1..Len(s) |-> ToUpperRune(s[i])]

ToLower(s) == [i \in 1..Len(s) |-> ToLowerRune(s[i])]

isAlnum(r) == r \in LowerLetters \cup UpperLetters \cup Digits

\* the runeMap of the superseded copy: the deferred assignment stores the
\* input rune, not the rune that was emitted
snakeRuneMapInputLast(r, last) ==
    IF isAlnum(r) THEN [m |-> r, last |-> r]
    ELSE IF last = "_" THEN [m |-> NoRune, last |-> r]
    ELSE [m |-> "_", last |-> r]

\* SnakeCase's runeMap: r is overwritten by '_' before the deferred last = r runs
snakeRuneMap(r, last) ==
    IF isAlnum(r) THEN [m |-> r, last |-> r]
    ELSE IF last = "_" THEN [m |-> NoRune, last |-> "_"]
    ELSE [m |-> "_", last |-> "_"]

dotRuneMap(r, last) ==
    IF r = "-" \/ isAlnum(r) THEN [m |-> r, last |-> r]
    ELSE IF last = "." THEN [m |-> NoRune, last |-> "."]
    ELSE [m |-> ".", last |-> "."]

kebabRuneMap(r, last) ==
    IF isAlnum(r) THEN [m |-> r, last |-> r]
    ELSE IF last = "-" THEN [m |-> NoRune, last |-> "-"]
    ELSE [m |-> "-", last |-> "-"]

\* the closure runeMap of the case function fn, called with r while the
\* captured variable last has the given value: [m |-> the rune returned,
\* last |-> the value of last when the call has returned]
runeMap(fn, r, last) ==
    CASE fn = "SnakeCase" -> snakeRuneMap(r, last)
      [] fn = "DotCase"   -> dotRuneMap(r, last)
      [] fn = "KebabCase" -> kebabRuneMap(r, last)

\* strings.Map(runeMap, s) with the runeMap of the case function fn: the
\* runes returned, in order, without those for which runeMap returns -1
StringsMap(fn, s) ==
    LET st[i \in 0..Len(s)] ==
            IF i = 0
            THEN [last |-> NoRune, out |-> <<>>]
            ELSE LET p == st[i - 1]
                     c == runeMap(fn, s[i], p.last)
                 IN  [last |-> c.last,
                      out  |-> IF c.m = NoRune THEN p.out ELSE Append(p.out, c.m)]
    IN  st[Len(s)].out

\* a SnakeCase that gives the separator for the empty name
SnakeCaseSeparatorForEmpty(name) ==
    IF name = <<>> THEN <<"_">> ELSE StringsMap("SnakeCase", name)

SnakeCase(name) == StringsMap("SnakeCase", name)

DotCase(name) == StringsMap("DotCase", name)

KebabCase(name) == StringsMap("KebabCase", name)

Identity(name) == name

----------------------------------------------------------------------------
(* Key functions as constructor chains *)

\* one constructor of a KeyFunc; prefix and keys are used by WithPrefix and
\* ignoreKeys only
KeyLayer(op, prefix, keys) == [op |-> op, prefix |-> prefix, keys |-> keys]

KPrim(op) == KeyLayer(op, <<>>, {})
KWithPrefix(prefix, kf) == <<KeyLayer("WithPrefix", prefix, {})>> \o kf
KUppercased(kf) == <<KPrim("Uppercased")>> \o kf
KLowercased(kf) == <<KPrim("Lowercased")>> \o kf
KIgnoreKeys(kf, keys) == <<KeyLayer("ignoreKeys", <<>>, keys)>> \o kf
KSnakeCase == <<KPrim("SnakeCase")>>
KDotCase == <<KPrim("DotCase")>>
KKebabCase == <<KPrim("KebabCase")>>
KIdentity == <<KPrim("Identity")>>

\* a call of a KeyFunc value: the function called and its argument
KeyCall(kf, arg) == [fn |-> kf, arg |-> arg]

\* what evaluating a KeyFunc gives: the string returned, and the calls of
\* wrapped KeyFuncs made on the way, in order
KeyResult(key, calls) == [key |-> key, calls |-> calls]

RECURSIVE EvalKey(_, _)

\* the call keyfn(arg) inside a decorator's closure
CallKey(kf, arg) ==
    LET r == EvalKey(kf, arg)
    IN  KeyResult(r.key, <<KeyCall(kf, arg)>> \o r.calls)

\* the closure without the empty-name return
WithPrefixNoReturn(prefix, keyfn, key) == CallKey(keyfn, prefix \o key)

\* the closure returned by WithPrefix(prefix, keyfn), applied to key
WithPrefix(prefix, keyfn, key) ==
    IF key = <<>> THEN KeyResult(<<>>, <<>>) ELSE CallKey(keyfn, prefix \o key)

\* the closure returned by Uppercased(keyfn), applied to key
Uppercased(keyfn, key) ==
    LET r == CallKey(keyfn, key) IN KeyResult(ToUpper(r.key), r.calls)

\* the closure returned by Lowercased(keyfn), applied to key
Lowercased(keyfn, key) ==
    LET r == CallKey(keyfn, key) IN KeyResult(ToLower(r.key), r.calls)

\* the closure returned by the test helper ignoreKeys(keyfn, keys...), applied to key
ignoreKeys(keyfn, keys, key) ==
    IF key \in keys THEN KeyResult(<<>>, <<>>) ELSE CallKey(keyfn, key)

\* the KeyFunc kf applied to name
EvalKey(kf, name) ==
    LET l == Head(kf)
        t == Tail(kf)
    IN  CASE l.op = "Identity"   -> KeyResult(Identity(name), <<>>)
          [] l.op = "SnakeCase"  -> KeyResult(SnakeCase(name), <<>>)
          [] l.op = "DotCase"    -> KeyResult(DotCase(name), <<>>)
          [] l.op = "KebabCase"  -> KeyResult(KebabCase(name), <<>>)
          [] l.op = "Uppercased" -> Uppercased(t, name)
          [] l.op = "Lowercased" -> Lowercased(t, name)
          [] l.op = "WithPrefix" -> WithPrefix(l.prefix, t, name)
          [] l.op = "ignoreKeys" -> ignoreKeys(t, l.keys, name)

----------------------------------------------------------------------------
(* Lookup functions as constructor chains *)

MaxInt32 == 2147483647

\* error values returned by a LookupFunc: nil, or the error of a failing store
NilErr == "nil"
TestErr == "test error"

\* strings.HasSuffix
HasSuffix(s, suffix) ==
    /\ Len(s) >= Len(suffix)
    /\ SubSeq(s, Len(s) - Len(suffix) + 1, Len(s)) = suffix

RECURSIVE Itoa(_)
\* strconv.Itoa
Itoa(i) ==
    IF i < 0 THEN <<"-">> \o Itoa(0 - i)
    ELSE IF i < 10 THEN <<DigitString[i + 1]>>
    ELSE Itoa(i \div 10) \o <<DigitString[(i % 10) + 1]>>

\* a Go map[string]T is the set of its entries [k |-> key, v |-> value]
MapHas(m, key) == \E e \in m : e.k = key
MapGet(m, key) == (CHOOSE e \in m : e.k = key).v

\* one constructor of a LookupFunc: m is a map[string]string (or the process
\* environment), ms a map[string][]string, sep and base those of WithIndexedLookup
LookupLayer(op, m, ms, sep, base) ==
    [op |-> op, m |-> m, ms |-> ms, sep |-> sep, base |-> base]

LLookupEnv(environ) == <<LookupLayer("LookupEnv", environ, {}, <<>>, 0)>>
LLookupMapValue(m) == <<LookupLayer("LookupMapValue", m, {}, <<>>, 0)>>
LLookupMapValues(ms) == <<LookupLayer("LookupMapValues", {}, ms, <<>>, 0)>>
LWithIndexedLookup(lf, sep, base) ==
    <<LookupLayer("WithIndexedLookup", {}, {}, sep, base)>> \o lf
\* the lookups of TestLookupError: one that always fails, one that fails on
\* keys ending in "_1" and finds nothing otherwise
LFailing == <<LookupLayer("failing", {}, {}, <<>>, 0)>>
LFailingSuffix == <<LookupLayer("failingSuffix", {}, {}, <<>>, 0)>>
\* a lookup that fails on keys ending in "_1" and answers the other keys from
\* the map ms
LFailingSuffixOver(ms) == <<LookupLayer("failingSuffix", {}, ms, <<>>, 0)>>
\* a lookup that holds a value under every key that ends in a digit
LEveryIndex == <<LookupLayer("everyIndex", {}, {}, <<>>, 0)>>
\* a nil LookupFunc
LNil == <<>>

\* a call of a LookupFunc value
LookupCall(lf, key) == [fn |-> lf, key |-> key]

\* what a LookupFunc returns, and the calls of wrapped LookupFuncs it made
LookupResult(values, err, calls) == [values |-> values, err |-> err, calls |-> calls]

\* LookupEnv, over the process environment environ
LookupEnv(environ, key) ==
    IF ~MapHas(environ, key) THEN LookupResult(<<>>, NilErr, <<>>)
    ELSE LookupResult(<<MapGet(environ, key)>>, NilErr, <<>>)

\* the closure returned by LookupMapValue(m)
LookupMapValue(m, key) ==
    IF ~MapHas(m, key) THEN LookupResult(<<>>, NilErr, <<>>)
    ELSE LookupResult(<<MapGet(m, key)>>, NilErr, <<>>)

\* the closure returned by LookupMapValues(m)
LookupMapValues(ms, key) ==
    IF ~MapHas(ms, key) THEN LookupResult(<<>>, NilErr, <<>>)
    ELSE LookupResult(MapGet(ms, key), NilErr, <<>>)

RECURSIVE EvalLookup(_, _)

\* the call l.innerLookup(key)
CallLookup(lf, key) ==
    LET r == EvalLookup(lf, key)
    IN  LookupResult(r.values, r.err, <<LookupCall(lf, key)>> \o r.calls)

RECURSIVE indexedLoop(_, _, _, _, _)
\* the for loop that returns the values accumulated along with an inner error
indexedLoopKeepsValues(inner, prefix, i, values, calls) ==
    IF ~(i >= 0 /\ i < MaxInt32) THEN LookupResult(values, NilErr, calls)
    ELSE LET r == CallLookup(inner, prefix \o Itoa(i))
         IN  IF r.err # NilErr THEN LookupResult(values, r.err, calls \o r.calls)
             ELSE IF Len(r.values) = 0
                  THEN LookupResult(values, NilErr, calls \o r.calls)
             ELSE indexedLoop(inner, prefix, i + 1, values \o r.values,
                              calls \o r.calls)

\* the for loop with the condition i <= math.MaxInt32
indexedLoopInclusive(inner, prefix, i, values, calls) ==
    IF ~(i >= 0) THEN LookupResult(values, NilErr, calls)
    ELSE LET r == CallLookup(inner, prefix \o Itoa(i))
         IN  IF r.err # NilErr THEN LookupResult(<<>>, r.err, calls \o r.calls)
             ELSE IF Len(r.values) = 0
                  THEN LookupResult(values, NilErr, calls \o r.calls)
             ELSE IF i = MaxInt32
                  THEN LookupResult(values \o r.values, NilErr, calls \o r.calls)
             ELSE indexedLoop(inner, prefix, i + 1, values \o r.values,
                              calls \o r.calls)

\* the for loop of indexedLookup.lookup, entered with loop variable i, the
\* values accumulated so far and the inner calls made so far
indexedLoop(inner, prefix, i, values, calls) ==
    IF ~(i >= 0 /\ i < MaxInt32) THEN LookupResult(values, NilErr, calls)
    ELSE LET r == CallLookup(inner, prefix \o Itoa(i))
         IN  IF r.err # NilErr THEN LookupResult(<<>>, r.err, calls \o r.calls)
             ELSE IF Len(r.values) = 0
                  THEN LookupResult(values, NilErr, calls \o r.calls)
             ELSE indexedLoop(inner, prefix, i + 1, values \o r.values,
                              calls \o r.calls)

\* indexedLookup.lookup with the direct hit ignored: always scans the indices
indexedLookupAlwaysScan(inner, sep, base, key) ==
    LET r == CallLookup(inner, key)
    IN  IF r.err # NilErr THEN LookupResult(<<>>, r.err, r.calls)
        ELSE indexedLoop(inner, key \o sep, base, r.values, r.calls)

\* indexedLookup.lookup
indexedLookup(inner, sep, base, key) ==
    LET r == CallLookup(inner, key)
    IN  IF r.err # NilErr THEN LookupResult(<<>>, r.err, r.calls)
        ELSE IF Len(r.values) # 0 THEN LookupResult(r.values, NilErr, r.calls)
        ELSE indexedLoop(inner, key \o sep, base, r.values, r.calls)

\* the LookupFunc lf applied to key
EvalLookup(lf, key) ==
    LET l == Head(lf)
    IN  CASE l.op = "LookupEnv"       -> LookupEnv(l.m, key)
          [] l.op = "LookupMapValue"  -> LookupMapValue(l.m, key)
          [] l.op = "LookupMapValues" -> LookupMapValues(l.ms, key)
          [] l.op = "failing"         -> LookupResult(<<>>, TestErr, <<>>)
          [] l.op = "failingSuffix"   ->
                IF HasSuffix(key, <<"_", "1">>)
                THEN LookupResult(<<>>, TestErr, <<>>)
                ELSE LookupMapValues(l.ms, key)
          [] l.op = "everyIndex"      ->
                IF key # <<>> /\ key[Len(key)] \in Digits
                THEN LookupResult(<<"+">>, NilErr, <<>>)
                ELSE LookupResult(<<>>, NilErr, <<>>)
          [] l.op = "WithIndexedLookup" ->
                indexedLookup(Tail(lf), l.sep, l.base, key)

----------------------------------------------------------------------------
(* The flag package: FlagSet, Flag and Value, as the Loader uses them *)

\* the runes of the model in code point order
RuneOrder == <<"*", "-", ".", "0", "1", "2", "3", "4", "5", "6", "7", "8", "9",
               "A", "B", "P", "_", "a", "b", "p">>
RuneOrd(r) == CHOOSE i \in 1..Len(RuneOrder) : RuneOrder[i] = r

RECURSIVE StrLess(_, _)
\* s < t for Go strings
StrLess(s, t) ==
    IF t = <<>> THEN FALSE
    ELSE IF s = <<>> THEN TRUE
    ELSE IF Head(s) # Head(t) THEN RuneOrd(Head(s)) < RuneOrd(Head(t))
    ELSE StrLess(Tail(s), Tail(t))

RECURSIVE sortFlags(_)
\* the names of a set of flags in lexicographical order, the order in which
\* FlagSet.VisitAll and FlagSet.Visit call their callback
sortFlags(names) ==
    IF names = {} THEN <<>>
    ELSE LET first == CHOOSE n \in names : \A o \in names \ {n} : StrLess(n, o)
         IN  <<first>> \o sortFlags(names \ {first})

\* values that strconv.ParseInt accepts, among the values of the model
IntTokens == {"0", "1", "2"}

\* a Flag with its Value: kind is the Value's type ("int", "string" or the
\* test's StringSlice, "slice"), skip says that the Value has a SkipMerge
\* method returning true, value is what the Value holds (one string, or the
\* elements of the slice), actual that the flag is in FlagSet.actual
Flag(kind, skip, value, actual) ==
    [kind |-> kind, skip |-> skip, value |-> value, actual |-> actual]

\* Value.Set(v) on the flag fl: the flag afterwards and whether Set returned nil.
\* intValue.Set stores ParseInt's result, 0 after a syntax error, either way.
ValueSet(fl, v) ==
    CASE fl.kind = "int" ->
            IF v \in IntTokens
            THEN [flag |-> [fl EXCEPT !.value = <<v>>], ok |-> TRUE]
            ELSE [flag |-> [fl EXCEPT !.value = <<"0">>], ok |-> FALSE]
      [] fl.kind = "string" ->
            [flag |-> [fl EXCEPT !.value = <<v>>], ok |-> TRUE]
      [] fl.kind = "slice" ->
            [flag |-> [fl EXCEPT !.value = Append(fl.value, v)], ok |-> TRUE]

\* a Set that does not record the flag among those that were set
FlagSetSetUnrecorded(f, name, v) ==
    IF name \notin DOMAIN f THEN [flags |-> f, ok |-> FALSE]
    ELSE LET r == ValueSet(f[name], v)
         IN  [flags |-> [f EXCEPT ![name] = r.flag], ok |-> r.ok]

\* FlagSet.Set(name, value): the flag set afterwards and whether it returned nil
FlagSetSet(f, name, v) ==
    IF name \notin DOMAIN f THEN [flags |-> f, ok |-> FALSE]
    ELSE LET r == ValueSet(f[name], v)
         IN  IF ~r.ok THEN [flags |-> [f EXCEPT ![name] = r.flag], ok |-> FALSE]
             ELSE [flags |-> [f EXCEPT ![name] = [r.flag EXCEPT !.actual = TRUE]],
                   ok |-> TRUE]

----------------------------------------------------------------------------
(* The Loader *)

Loader(key, lookup) == [Key |-> key, Lookup |-> lookup]

\* snakePrefix without the test of the first byte
snakePrefixNoDigitTest(str) == ToUpper(SnakeCase(str)) \o <<"_">>

\* snakePrefix(str): the environment prefix made of a program name
snakePrefix(str) ==
    LET prefix == ToUpper(SnakeCase(str)) \o <<"_">>
    IN  IF prefix[1] \in Digits THEN <<"_">> \o prefix ELSE prefix

\* the errors the Loader returns: nil, errNoLookup, a lookup error or a Set
\* error wrapped with the flag name and the key, or SetOne's "flag not found"
Error(kind, name, key) == [kind |-> kind, name |-> name, key |-> key]
NoError == Error("nil", <<>>, <<>>)
errNoLookup == Error("no lookup function defined", <<>>, <<>>)

\* the progress of one operation: the flag set, and in call order the flags
\* whose key was derived, the calls of l.Lookup and the calls of f.Set
Trace(f, err, keyed, lookups, sets) ==
    [flags |-> f, err |-> err, keyed |-> keyed, lookups |-> lookups, sets |-> sets]

\* the range loop that stops after the first value
setValuesFirstOnly(t, name, key, values, i) ==
    IF i > Len(values) \/ i > 1 THEN t
    ELSE LET r == FlagSetSet(t.flags, name, values[i])
             sets == Append(t.sets, [name |-> name, value |-> values[i], ok |-> r.ok])
         IN  IF ~r.ok
             THEN Trace(r.flags, Error("unable to load", name, key),
                        t.keyed, t.lookups, sets)
             ELSE Trace(r.flags, t.err, t.keyed, t.lookups, sets)

RECURSIVE setValues(_, _, _, _, _)
\* the range loop that goes on to the next value after a Set that failed
setValuesNoStop(t, name, key, values, i) ==
    IF i > Len(values) THEN t
    ELSE LET r == FlagSetSet(t.flags, name, values[i])
             sets == Append(t.sets, [name |-> name, value |-> values[i], ok |-> r.ok])
             err == IF r.ok THEN t.err ELSE Error("unable to load", name, key)
         IN  setValues(Trace(r.flags, err, t.keyed, t.lookups, sets),
                       name, key, values, i + 1)

\* the range loop of setFlag over values, from index i on
setValues(t, name, key, values, i) ==
    IF i > Len(values) THEN t
    ELSE LET r == FlagSetSet(t.flags, name, values[i])
             sets == Append(t.sets, [name |-> name, value |-> values[i], ok |-> r.ok])
         IN  IF ~r.ok
             THEN Trace(r.flags, Error("unable to load", name, key),
                        t.keyed, t.lookups, sets)
             ELSE setValues(Trace(r.flags, t.err, t.keyed, t.lookups, sets),
                            name, key, values, i + 1)

\* Loader.setFlag on the flag called name; t.err is its return value
setFlag(l, t, name) ==
    IF l.Lookup = LNil
    THEN Trace(t.flags, errNoLookup, t.keyed, t.lookups, t.sets)
    ELSE LET keyfn == IF l.Key = <<>> THEN KIdentity ELSE l.Key
             key == EvalKey(keyfn, name).key
             keyed == Append(t.keyed, name)
         IN  IF key = <<>>
             THEN Trace(t.flags, NoError, keyed, t.lookups, t.sets)
             ELSE LET r == EvalLookup(l.Lookup, key)
                      lookups == Append(t.lookups, [name |-> name, key |-> key])
                  IN  IF r.err # NilErr
                      THEN Trace(t.flags, Error("error looking up", name, key),
                                 keyed, lookups, t.sets)
                      ELSE setValues(Trace(t.flags, NoError, keyed, lookups, t.sets),
                                     name, key, r.values, 1)

\* shouldSkip with the SkipMerge method never consulted
shouldSkipNever(fl) == FALSE

\* shouldSkip(fv.Value)
shouldSkip(fl) == fl.skip

\* the visited set that stays empty under merge
seenNone(f, merge) == {}

\* the visited set collected whatever merge says
seenAlways(f, merge) == {n \in DOMAIN f : f[n].actual}

\* the flagNames that setFlags collects with f.Visit when merge is set
seenNames(f, merge) ==
    IF merge THEN {n \in DOMAIN f : f[n].actual} ELSE {}

RECURSIVE visitAll(_, _, _, _)
\* the callback that goes on to the next flags after an error
visitAllNoStop(l, t, seen, i) ==
    LET order == sortFlags(DOMAIN t.flags)
    IN  IF i > Len(order) THEN t
        ELSE LET name == order[i]
             IN  IF name \in seen \/ shouldSkip(t.flags[name])
                 THEN visitAll(l, t, seen, i + 1)
                 ELSE visitAll(l, setFlag(l, t, name), seen, i + 1)

\* f.VisitAll with setFlags' callback, over the flags in order from index i on;
\* t.err is the err that setFlags returns
visitAll(l, t, seen, i) ==
    LET order == sortFlags(DOMAIN t.flags)
    IN  IF i > Len(order) THEN t
        ELSE LET name == order[i]
             IN  IF t.err # NoError \/ name \in seen \/ shouldSkip(t.flags[name])
                 THEN visitAll(l, t, seen, i + 1)
                 ELSE visitAll(l, setFlag(l, t, name), seen, i + 1)

\* Loader.setFlags
setFlags(l, f, merge) ==
    visitAll(l, Trace(f, NoError, <<>>, <<>>, <<>>), seenNames(f, merge), 1)

\* SetOne that goes to setFlag without f.Lookup's nil test
loaderSetOneUnchecked(l, f, name) ==
    setFlag(l, Trace(f, NoError, <<>>, <<>>, <<>>), name)

\* Loader.SetOne
loaderSetOne(l, f, name) ==
    IF name \notin DOMAIN f
    THEN Trace(f, Error("flag not found", name, <<>>), <<>>, <<>>, <<>>)
    ELSE setFlag(l, Trace(f, NoError, <<>>, <<>>, <<>>), name)

----------------------------------------------------------------------------
(* The values the specifications draw from *)

\* the flags that a flag set may declare, with the type of their Value
NameB == <<"B">>
NameA == <<"a">>
NameAB == <<"a", "-", "b">>
Names == {NameB, NameA, NameAB}

KindOf(name) ==
    CASE name = NameA  -> "int"
      [] name = NameB  -> "string"
      [] name = NameAB -> "slice"

\* a declared flag after f.Parse: at its default, supplied on the command
\* line, or at its default with a Value whose SkipMerge returns true
FlagChoices(name) ==
    LET kind == KindOf(name)
        default == CASE kind = "int" -> <<"0">>
                     [] kind = "string" -> <<"">>
                     [] kind = "slice" -> <<>>
        given == IF kind = "int" THEN <<"2">> ELSE <<"cli">>
    IN  { Flag(kind, FALSE, default, FALSE),
          Flag(kind, FALSE, given, TRUE),
          Flag(kind, TRUE, default, FALSE) }

FlagSets == UNION {[D -> UNION {FlagChoices(n) : n \in D}] : D \in SUBSET Names}

ParsedFlagSets == {f \in FlagSets : \A n \in DOMAIN f : f[n] \in FlagChoices(n)}

PrefixSnake == <<"p", "_">>
PrefixDot == <<"p", ".">>
PrefixKebab == <<"p", "-">>

\* the Key fields of the Loaders: nil, SnakeCase, the compositions of the
\* tests, EnvLoader and DotLoader, and ignoreKeys with and without a prefix
\* around it
KeyFuncs ==
    { <<>>,
      KSnakeCase,
      KWithPrefix(PrefixSnake, KUppercased(KSnakeCase)),
      KUppercased(KWithPrefix(PrefixSnake, KSnakeCase)),
      KLowercased(KWithPrefix(PrefixDot, KDotCase)),
      KWithPrefix(PrefixKebab, KLowercased(KIgnoreKeys(KKebabCase, {NameB, NameAB}))),
      KWithPrefix(<<>>, KLowercased(KIgnoreKeys(KKebabCase, {NameB}))),
      KIgnoreKeys(KIdentity, {NameA}) }

\* the key of a flag under a Loader's Key field
KeyOf(kf, name) == EvalKey(IF kf = <<>> THEN KIdentity ELSE kf, name).key

\* the non-empty keys that some key function derives for name
KeysOf(name) == {KeyOf(kf, name) : kf \in KeyFuncs} \ {<<>>}

\* a map[string]string holding value under every key of the names in ns
DirectMap(ns, value) ==
    {[k |-> key, v |-> value] : key \in UNION {KeysOf(n) : n \in ns}}

\* a map[string][]string holding values under every key of the names in ns
DirectValuesMap(ns, values) ==
    {[k |-> key, v |-> values] : key \in UNION {KeysOf(n) : n \in ns}}

\* a map[string]string holding value under key+sep+i for every key of the
\* names in ns and every index i in idx
IndexedMap(ns, sep, idx, value) ==
    {[k |-> key \o sep \o Itoa(i), v |-> value] :
        key \in UNION {KeysOf(n) : n \in ns}, i \in idx}

\* a map of lists with a value that an int flag rejects
LookupRejected ==
    LLookupMapValues(DirectValuesMap({NameA}, <<"1", "x", "2">>)
                     \cup DirectValuesMap({NameB, NameAB}, <<"1", "2">>))

\* the Lookup of EnvLoader over an environment with direct and indexed keys
LookupIndexedEnv ==
    LWithIndexedLookup(
        LLookupEnv(DirectMap({NameA}, "2")
                   \cup IndexedMap({NameB, NameAB}, <<"_">>, {1, 2, 4}, "1")),
        <<"_">>, 1)

\* the Lookup fields of the Loaders
Lookups ==
    { LNil,
      LLookupMapValue(DirectMap(Names, "1")),
      LLookupMapValue(DirectMap({NameA, NameAB}, "x")),
      LLookupMapValues(DirectValuesMap({NameB, NameAB}, <<"1", "2">>)),
      LookupRejected,
      LookupIndexedEnv,
      LFailing }

Loaders == {Loader(kf, lf) : kf \in KeyFuncs, lf \in Lookups}

----------------------------------------------------------------------------
(* The Loader's state machine: a flag set, a Loader, and operations on them *)

VARIABLES
    flags,    \* the FlagSet
    loader,   \* the Loader
    last,     \* the last operation: its name and argument, the flag set
              \* before it, and its trace
    ncalls,   \* number of operations so far
    kfn,      \* the KeyFunc applied in the key-function specification
    kin,      \* its argument
    kres,     \* its result
    lfn,      \* the LookupFunc applied in the lookup specification
    lkey,     \* its argument
    lres,     \* its result
    runs,     \* the bulk operations in progress, one per goroutine
    lastOf,   \* the variables "last" of the case functions being evaluated
    passes    \* the operations done on the flag set by several Loaders, in order

vars ==
    <<flags, loader, last, ncalls, kfn, kin, kres, lfn, lkey, lres, runs, lastOf,
      passes>>
loaderVars == <<flags, loader, last, ncalls>>
keyVars == <<kfn, kin, kres>>
lookupVars == <<lfn, lkey, lres>>
runVars == <<runs, lastOf>>

Operation(op, name, pre, t) ==
    [op |-> op, name |-> name, pre |-> pre, err |-> t.err,
     keyed |-> t.keyed, lookups |-> t.lookups, sets |-> t.sets]

NoOperation == Operation("none", <<>>, <<>>, Trace(<<>>, NoError, <<>>, <<>>, <<>>))

NoKeyVars ==
    /\ kfn = <<>>
    /\ kin = <<>>
    /\ kres = KeyResult(<<>>, <<>>)

NoLookupVars ==
    /\ lfn = <<>>
    /\ lkey = <<>>
    /\ lres = LookupResult(<<>>, NilErr, <<>>)

NoLoaderVars ==
    /\ flags = <<>>
    /\ loader = Loader(<<>>, <<>>)
    /\ last = NoOperation
    /\ ncalls = 0

NoRunVars ==
    /\ runs = <<>>
    /\ lastOf = <<>>

Init ==
    /\ flags \in ParsedFlagSets
    /\ loader \in Loaders
    /\ last = NoOperation
    /\ ncalls = 0
    /\ NoKeyVars
    /\ NoLookupVars
    /\ NoRunVars
    /\ passes = <<>>

\* l.SetAll(f)
SetAll ==
    /\ ncalls < MaxCalls
    /\ LET t == setFlags(loader, flags, FALSE)
       IN  /\ flags' = t.flags
           /\ last' = Operation("SetAll", <<>>, flags, t)
    /\ ncalls' = ncalls + 1
    /\ UNCHANGED <<loader, keyVars, lookupVars, runVars, passes>>

\* l.SetMissing(f)
SetMissing ==
    /\ ncalls < MaxCalls
    /\ LET t == setFlags(loader, flags, TRUE)
       IN  /\ flags' = t.flags
           /\ last' = Operation("SetMissing", <<>>, flags, t)
    /\ ncalls' = ncalls + 1
    /\ UNCHANGED <<loader, keyVars, lookupVars, runVars, passes>>

\* l.SetOne(f, name)
SetOne ==
    /\ ncalls < MaxCalls
    /\ \E name \in Names :
          LET t == loaderSetOne(loader, flags, name)
          IN  /\ flags' = t.flags
              /\ last' = Operation("SetOne", name, flags, t)
    /\ ncalls' = ncalls + 1
    /\ UNCHANGED <<loader, keyVars, lookupVars, runVars, passes>>

Next == SetAll \/ SetMissing \/ SetOne

Spec == Init /\ [][Next]_vars

----------------------------------------------------------------------------
(* The key functions on their own: one KeyFunc applied to one string *)

\* the runes of the strings handed to the key functions
InputRunes == {"a", "B", "7", "_", "-", ".", "*"}

RECURSIVE StringsUpTo(_)
StringsUpTo(n) ==
    IF n = 0 THEN {<<>>}
    ELSE LET shorter == StringsUpTo(n - 1)
         IN  shorter \cup {Append(s, r) : s \in shorter, r \in InputRunes}

CaseFuncs == {KSnakeCase, KDotCase, KKebabCase}

\* the KeyFuncs applied: the case functions, and WithPrefix around the key
\* functions it is composed with
AppliedKeyFuncs ==
    CaseFuncs
    \cup {KWithPrefix(p, kf) :
            p \in {<<>>, PrefixSnake, PrefixKebab},
            kf \in CaseFuncs \cup {KIdentity, KUppercased(KSnakeCase),
                                   KLowercased(KIgnoreKeys(KKebabCase, {NameB}))}}
    \cup {KUppercased(KWithPrefix(PrefixSnake, KSnakeCase)),
          KLowercased(KWithPrefix(PrefixDot, KDotCase))}

InitKeys ==
    /\ NoLoaderVars
    /\ NoLookupVars
    /\ NoRunVars
    /\ passes = <<>>
    /\ kfn = <<>>
    /\ kin \in StringsUpTo(MaxLen)
    /\ kres = KeyResult(<<>>, <<>>)

\* kf(kin) for a KeyFunc kf
ApplyKey ==
    /\ kfn = <<>>
    /\ \E kf \in AppliedKeyFuncs :
          /\ kfn' = kf
          /\ kres' = EvalKey(kf, kin)
    /\ UNCHANGED <<kin, loaderVars, lookupVars, runVars, passes>>

\* the mark, in kfn, of an application of snakePrefix
KSnakePrefix == <<KPrim("snakePrefix")>>

\* snakePrefix(kin)
ApplySnakePrefix ==
    /\ kfn = <<>>
    /\ kfn' = KSnakePrefix
    /\ kres' = KeyResult(snakePrefix(kin), <<>>)
    /\ UNCHANGED <<kin, loaderVars, lookupVars, runVars, passes>>

NextKeys == ApplyKey \/ ApplySnakePrefix

SpecKeys == InitKeys /\ [][NextKeys]_vars

----------------------------------------------------------------------------
(* WithIndexedLookup on its own: one indexed lookup of one key *)

LookupKey == <<"a">>

\* the value a backing map holds under the key of index i
IndexValue(i) == DigitString[(i % 10) + 1]

\* the indices from base on, at most MaxIdx of them and none above MaxInt32
IndicesFrom(base) == {base + d : d \in {e \in 0..(MaxIdx - 1) : e <= MaxInt32 - base}}

\* a map[string][]string with the key itself (when direct) and the indexed
\* keys of idx
BackingMap(direct, sep, idx) ==
    (IF direct THEN {[k |-> LookupKey, v |-> <<"d">>]} ELSE {})
    \cup {[k |-> LookupKey \o sep \o Itoa(i), v |-> <<IndexValue(i), "+">>] : i \in idx}

Bases == {-1, 0, 1, MaxInt32 - 2, MaxInt32 - 1, MaxInt32}

Seps == {<<"_">>, <<"-">>}

IndexedLookups ==
    {LWithIndexedLookup(LLookupMapValues(BackingMap(direct, sep, idx)), sep, base) :
        direct \in BOOLEAN, sep \in Seps,
        base \in Bases, idx \in SUBSET IndicesFrom(0) \cup SUBSET IndicesFrom(1)
                                \cup SUBSET IndicesFrom(MaxInt32 - 1)}
    \cup {LWithIndexedLookup(lf, <<"_">>, base) :
            lf \in {LFailing, LFailingSuffix}, base \in Bases}
    \cup {LWithIndexedLookup(LFailingSuffixOver(BackingMap(direct, <<"_">>, {0})),
                             <<"_">>, base) :
            direct \in BOOLEAN, base \in Bases}
    \cup {LWithIndexedLookup(LEveryIndex, sep, base) :
            sep \in Seps, base \in Bases \ {0, 1}}

InitLookup ==
    /\ NoLoaderVars
    /\ NoKeyVars
    /\ NoRunVars
    /\ passes = <<>>
    /\ lfn \in IndexedLookups
    /\ lkey = <<>>
    /\ lres = LookupResult(<<>>, NilErr, <<>>)

\* lfn(LookupKey)
ApplyLookup ==
    /\ lkey = <<>>
    /\ lkey' = LookupKey
    /\ lres' = EvalLookup(lfn, LookupKey)
    /\ UNCHANGED <<lfn, loaderVars, keyVars, runVars, passes>>

NextLookup == ApplyLookup

SpecLookup == InitLookup /\ [][NextLookup]_vars

----------------------------------------------------------------------------
(* Two bulk operations of one Loader in two goroutines, each on its own flag
   set, one step of one goroutine at a time: a call of the VisitAll callback,
   a call of a case function's runeMap, the return of the Key function, a
   call of Lookup, a call of f.Set *)

Goroutines == {1, 2}

\* the cell of lastOf that holds the variable "last" of the case function
\* called in goroutine g, were there one "last" for all calls
lastCellShared(g) == 1

\* the cell of lastOf that holds the variable "last" of the case function
\* called in goroutine g: "last" is declared in the function's body
lastCell(g) == g

NoCall == KeyCall(<<>>, <<>>)

\* the call of the innermost function (a case function or Identity) that
\* evaluating kf(name) makes, or NoCall when a decorator returns before it
InnerCall(kf, name) ==
    LET calls == EvalKey(kf, name).calls
    IN  IF Len(kf) = 1 THEN KeyCall(kf, name)
        ELSE IF calls # <<>> /\ Len(calls[Len(calls)].fn) = 1
             THEN calls[Len(calls)]
             ELSE NoCall

RECURSIVE Decorate(_, _)
\* what kf returns when its innermost function has returned s
Decorate(kf, s) ==
    IF Len(kf) = 1 THEN s
    ELSE LET inner == Decorate(Tail(kf), s)
         IN  CASE kf[1].op = "Uppercased" -> ToUpper(inner)
               [] kf[1].op = "Lowercased" -> ToLower(inner)
               [] OTHER -> inner

\* a bulk operation before its first step: setFlags(f, merge) has collected
\* the names of the flags that were set
Run(f, merge) ==
    [pre |-> f, merge |-> merge, flags |-> f, seen |-> seenNames(f, merge),
     i |-> 1, pc |-> "visit", name |-> <<>>, fn |-> "", arg |-> <<>>,
     out |-> <<>>, key |-> <<>>, values |-> <<>>, err |-> NoError,
     among |-> FALSE]

\* the flag sets of the goroutines
RunFlagSets ==
    {f \in ParsedFlagSets :
        \/ DOMAIN f = Names /\ \A n \in Names : ~f[n].skip /\ ~f[n].actual
        \/ DOMAIN f = {NameA, NameAB} /\ f[NameA].actual /\ ~f[NameAB].skip
                                      /\ ~f[NameAB].actual
        \/ DOMAIN f = {NameB, NameAB} /\ f[NameB].skip /\ f[NameAB].actual}

\* the Loaders that the goroutines share
RunLoaders ==
    {Loader(kf, lf) :
        kf \in {<<>>,
                KUppercased(KWithPrefix(PrefixSnake, KSnakeCase)),
                KWithPrefix(<<>>, KLowercased(KIgnoreKeys(KKebabCase, {NameB})))},
        lf \in {LNil, LookupRejected, LookupIndexedEnv, LFailing}}

InitParallel ==
    /\ NoKeyVars
    /\ NoLookupVars
    /\ flags = <<>>
    /\ last = NoOperation
    /\ ncalls = 0
    /\ loader \in RunLoaders
    /\ runs \in [Goroutines -> {Run(f, merge) : f \in RunFlagSets, merge \in BOOLEAN}]
    /\ lastOf = [c \in Goroutines |-> NoRune]
    /\ passes = <<>>

\* goroutine g steps while the other has begun and has not finished
Among(g) ==
    \E o \in Goroutines \ {g} :
        runs[o].pc # "done" /\ (runs[o].i > 1 \/ runs[o].pc # "visit")

Step(g, r) ==
    runs' = [runs EXCEPT ![g] = [r EXCEPT !.among = runs[g].among \/ Among(g)]]

\* the callback returns: VisitAll goes on to the next flag
NextFlag(r) == [r EXCEPT !.i = r.i + 1, !.pc = "visit"]

\* VisitAll calls the callback with the next flag, which returns or starts
\* setFlag up to the call of the Key function's innermost function; or
\* VisitAll is through and setFlags returns
GoVisit(g) ==
    LET r == runs[g]
        order == sortFlags(DOMAIN r.flags)
        name == order[r.i]
        keyfn == IF loader.Key = <<>> THEN KIdentity ELSE loader.Key
        call == InnerCall(keyfn, name)
    IN  /\ r.pc = "visit"
        /\ IF r.i > Len(order)
           THEN Step(g, [r EXCEPT !.pc = "done"]) /\ UNCHANGED lastOf
           ELSE IF r.err # NoError \/ name \in r.seen \/ shouldSkip(r.flags[name])
           THEN Step(g, NextFlag(r)) /\ UNCHANGED lastOf
           ELSE IF loader.Lookup = LNil
           THEN Step(g, NextFlag([r EXCEPT !.err = errNoLookup])) /\ UNCHANGED lastOf
           ELSE IF call = NoCall
           THEN Step(g, NextFlag(r)) /\ UNCHANGED lastOf
           ELSE IF call.fn = KIdentity
           THEN /\ Step(g, [r EXCEPT !.name = name, !.pc = "map", !.fn = "Identity",
                                     !.arg = <<>>, !.out = Identity(call.arg)])
                /\ UNCHANGED lastOf
           ELSE /\ Step(g, [r EXCEPT !.name = name, !.pc = "map",
                                     !.fn = call.fn[1].op,
                                     !.arg = call.arg, !.out = <<>>])
                /\ lastOf' = [lastOf EXCEPT ![lastCell(g)] = NoRune]
        /\ UNCHANGED <<loaderVars, keyVars, lookupVars, passes>>

\* strings.Map calls runeMap with the next rune of the name
GoMapRune(g) ==
    LET r == runs[g]
        c == runeMap(r.fn, Head(r.arg), lastOf[lastCell(g)])
    IN  /\ r.pc = "map"
        /\ r.arg # <<>>
        /\ Step(g, [r EXCEPT !.arg = Tail(r.arg),
                             !.out = IF c.m = NoRune THEN r.out
                                     ELSE Append(r.out, c.m)])
        /\ lastOf' = [lastOf EXCEPT ![lastCell(g)] = c.last]
        /\ UNCHANGED <<loaderVars, keyVars, lookupVars, passes>>

\* the Key function returns; setFlag returns nil for an empty key
GoKey(g) ==
    LET r == runs[g]
        keyfn == IF loader.Key = <<>> THEN KIdentity ELSE loader.Key
        key == Decorate(keyfn, r.out)
    IN  /\ r.pc = "map"
        /\ r.arg = <<>>
        /\ IF key = <<>> THEN Step(g, NextFlag(r))
           ELSE Step(g, [r EXCEPT !.key = key, !.pc = "lookup"])
        /\ UNCHANGED <<lastOf, loaderVars, keyVars, lookupVars, passes>>

\* setFlag calls l.Lookup(key)
GoLookup(g) ==
    LET r == runs[g]
        res == EvalLookup(loader.Lookup, r.key)
    IN  /\ r.pc = "lookup"
        /\ IF res.err # NilErr
           THEN Step(g, NextFlag([r EXCEPT !.err = Error("error looking up", r.name, r.key)]))
           ELSE Step(g, [r EXCEPT !.values = res.values, !.pc = "set"])
        /\ UNCHANGED <<lastOf, loaderVars, keyVars, lookupVars, passes>>

\* setFlag calls f.Set with the next value, or is through the values
GoSet(g) ==
    LET r == runs[g]
        res == FlagSetSet(r.flags, r.name, Head(r.values))
    IN  /\ r.pc = "set"
        /\ IF r.values = <<>> THEN Step(g, NextFlag(r))
           ELSE IF ~res.ok
           THEN Step(g, NextFlag([r EXCEPT !.flags = res.flags, !.values = <<>>,
                                           !.err = Error("unable to load", r.name, r.key)]))
           ELSE Step(g, [r EXCEPT !.flags = res.flags, !.values = Tail(r.values)])
        /\ UNCHANGED <<lastOf, loaderVars, keyVars, lookupVars, passes>>

NextParallel ==
    \E g \in Goroutines :
        GoVisit(g) \/ GoMapRune(g) \/ GoKey(g) \/ GoLookup(g) \/ GoSet(g)

SpecParallel == InitParallel /\ [][NextParallel]_vars

----------------------------------------------------------------------------
(* Several Loaders, one after the other, on one flag set *)

\* the Loaders of the sources: a map standing for a file, the environment
\* with indexed keys, and a map with a value that an int flag rejects
LayerLoaders ==
    { Loader(<<>>, LLookupMapValue(DirectMap(Names, "1"))),
      Loader(KUppercased(KWithPrefix(PrefixSnake, KSnakeCase)), LookupIndexedEnv),
      Loader(KSnakeCase, LookupRejected) }

InitLayers ==
    /\ flags \in {f \in ParsedFlagSets : DOMAIN f = Names}
    /\ loader = Loader(<<>>, <<>>)
    /\ last = NoOperation
    /\ ncalls = 0
    /\ passes = <<>>
    /\ NoKeyVars
    /\ NoLookupVars
    /\ NoRunVars

\* the operation op of Loader l has run with trace t
Pass(l, op, name, t) ==
    /\ flags' = t.flags
    /\ loader' = l
    /\ last' = Operation(op, name, flags, t)
    /\ passes' = Append(passes, [loader |-> l, run |-> Operation(op, name, flags, t)])
    /\ ncalls' = ncalls + 1
    /\ UNCHANGED <<keyVars, lookupVars, runVars>>

\* l.SetAll(f) for one of the Loaders
LayerSetAll ==
    /\ ncalls < MaxCalls
    /\ \E l \in LayerLoaders : Pass(l, "SetAll", <<>>, setFlags(l, flags, FALSE))

\* l.SetMissing(f) for one of the Loaders
LayerSetMissing ==
    /\ ncalls < MaxCalls
    /\ \E l \in LayerLoaders : Pass(l, "SetMissing", <<>>, setFlags(l, flags, TRUE))

\* l.SetOne(f, name) for one of the Loaders
LayerSetOne ==
    /\ ncalls < MaxCalls
    /\ \E l \in LayerLoaders, name \in Names :
          Pass(l, "SetOne", name, loaderSetOne(l, flags, name))

NextLayers == LayerSetAll \/ LayerSetMissing \/ LayerSetOne

SpecLayers == InitLayers /\ [][NextLayers]_vars

----------------------------------------------------------------------------
(* Properties of the bulk operations *)

IsBulk == last.op \in {"SetAll", "SetMissing"}

\* the values passed to f.Set for the flag called name, in call order
RECURSIVE SetsFor(_, _)
SetsFor(sets, name) ==
    IF sets = <<>> THEN <<>>
    ELSE (IF Head(sets).name = name THEN <<Head(sets).value>> ELSE <<>>)
         \o SetsFor(Tail(sets), name)

SetCalled(name) == \E i \in 1..Len(last.sets) : last.sets[i].name = name

LookedUp(name) == \E i \in 1..Len(last.lookups) : last.lookups[i].name = name

\* the values the Loader's Lookup yields for the key of the flag called name
\* (none for an empty key or a nil Lookup)
FoundFor(name) ==
    LET key == KeyOf(loader.Key, name)
    IN  IF key = <<>> \/ loader.Lookup = LNil THEN <<>>
        ELSE EvalLookup(loader.Lookup, key).values

\* C1: after a bulk operation that returned no error, Set was called on a
\* declared flag exactly when its key is non-empty, the lookup of that key
\* yields a value, its Value does not ask to be skipped and, under SetMissing,
\* it was not supplied before the call; every other flag is as it was.
C1_AssignedIff ==
    (IsBulk /\ last.err = NoError) =>
        \A n \in DOMAIN last.pre :
            /\ SetCalled(n) <=>
                  /\ KeyOf(loader.Key, n) # <<>>
                  /\ FoundFor(n) # <<>>
                  /\ ~last.pre[n].skip
                  /\ (last.op = "SetMissing" => ~last.pre[n].actual)
            /\ ~SetCalled(n) => flags[n] = last.pre[n]

\* a bulk operation without error that set one flag and passed over another
\* whose key was empty
C1_Witness ==
    /\ IsBulk
    /\ last.err = NoError
    /\ \E n, o \in DOMAIN last.pre :
          /\ SetCalled(n)
          /\ flags[n] # last.pre[n]
          /\ ~SetCalled(o)
          /\ ~last.pre[o].skip
          /\ ~last.pre[o].actual
          /\ KeyOf(loader.Key, o) = <<>>

\* C2: under SetMissing a flag supplied before the call is neither looked up
\* nor passed to Set, and keeps its value.
C2_SuppliedUntouched ==
    last.op = "SetMissing" =>
        \A n \in DOMAIN last.pre :
            last.pre[n].actual =>
                /\ ~LookedUp(n)
                /\ ~SetCalled(n)
                /\ n \notin {last.keyed[i] : i \in 1..Len(last.keyed)}
                /\ flags[n] = last.pre[n]

\* a SetMissing that set some flag while a supplied flag, for which the
\* lookup holds another value, stayed
C2_Witness ==
    /\ last.op = "SetMissing"
    /\ \E n, o \in DOMAIN last.pre :
          /\ last.pre[n].actual
          /\ ~last.pre[n].skip
          /\ FoundFor(n) # <<>>
          /\ FoundFor(n) # last.pre[n].value
          /\ flags[n] = last.pre[n]
          /\ SetCalled(o)

\* what C3 says of the flag called n: the values found were passed to Set in
\* order, and a single-valued flag holds the (last) value found
AppliedAll(n) ==
    /\ SetsFor(last.sets, n) = FoundFor(n)
    /\ last.pre[n].kind \in {"int", "string"} =>
          flags[n].value = <<FoundFor(n)[Len(FoundFor(n))]>>

\* C3 as stated: under SetAll every flag that is not exempt, has a non-empty
\* key and a lookup with at least one value has those values applied.
C3_Original ==
    last.op = "SetAll" =>
        \A n \in DOMAIN last.pre :
            (~last.pre[n].skip /\ FoundFor(n) # <<>>) => AppliedAll(n)

\* C3, amended: after a SetAll that returned no error, every flag that is not
\* exempt, has a non-empty key and a lookup with at least one value had those
\* values passed to Set in order, supplied before the call or not, and a
\* single-valued flag holds the last of them.
C3_AppliedWhenNoError ==
    (last.op = "SetAll" /\ last.err = NoError) =>
        \A n \in DOMAIN last.pre :
            (~last.pre[n].skip /\ FoundFor(n) # <<>>) => AppliedAll(n)

\* a SetAll without error that replaced the value of a supplied single-valued
\* flag by the last of several values found
C3_Witness ==
    /\ last.op = "SetAll"
    /\ last.err = NoError
    /\ \E n \in DOMAIN last.pre :
          /\ last.pre[n].actual
          /\ last.pre[n].kind = "string"
          /\ Len(FoundFor(n)) > 1
          /\ flags[n].value # last.pre[n].value
          /\ flags[n].value = <<FoundFor(n)[Len(FoundFor(n))]>>

\* C4: a bulk operation neither looks up nor sets a flag whose Value reports
\* SkipMerge; SetOne on such a flag derives its key, looks the key up and
\* applies the values found, in order, up to the first that Set rejects.
C4_ExemptOnlyInBulk ==
    /\ IsBulk =>
          \A n \in DOMAIN last.pre :
              last.pre[n].skip =>
                  /\ ~LookedUp(n)
                  /\ ~SetCalled(n)
                  /\ flags[n] = last.pre[n]
    /\ (/\ last.op = "SetOne"
        /\ last.name \in DOMAIN last.pre
        /\ last.pre[last.name].skip
        /\ loader.Lookup # LNil) =>
          LET n == last.name
              key == KeyOf(loader.Key, n)
              r == EvalLookup(loader.Lookup, key)
              applied == SetsFor(last.sets, n)
          IN  /\ last.keyed = <<n>>
              /\ key # <<>> =>
                    /\ last.lookups = <<[name |-> n, key |-> key]>>
                    /\ r.err = NilErr =>
                          /\ Len(applied) <= Len(r.values)
                          /\ applied = SubSeq(r.values, 1, Len(applied))
                          /\ r.values # <<>> => applied # <<>>
                          /\ last.err = NoError => applied = r.values

\* SetOne on an exempt flag changed it to the value found
C4_Witness ==
    /\ last.op = "SetOne"
    /\ last.name \in DOMAIN last.pre
    /\ last.pre[last.name].skip
    /\ last.err = NoError
    /\ FoundFor(last.name) # <<>>
    /\ flags[last.name] # last.pre[last.name]
    /\ SetsFor(last.sets, last.name) = FoundFor(last.name)

\* C5: a bulk operation of a Loader whose Lookup is nil returns errNoLookup
\* and changes no flag, whatever the flag set.
C5_NoLookupError ==
    (IsBulk /\ loader.Lookup = LNil) =>
        /\ last.err = errNoLookup
        /\ flags = last.pre

----------------------------------------------------------------------------
(* Properties of WithIndexedLookup *)

\* the lookup was applied: its first act is the direct call of the inner lookup
LookupApplied == lkey # <<>>

\* the inner lookup is a map, which never fails
InnerIsMap == lfn[2].op = "LookupMapValues"

\* the keys of the inner calls, in call order
Probed == [i \in 1..Len(lres.calls) |-> lres.calls[i].key]

\* prefix+i for the indices i of from..to, in order
RECURSIVE KeysOfRange(_, _, _)
KeysOfRange(prefix, from, to) ==
    IF from > to THEN <<>>
    ELSE <<prefix \o Itoa(from)>>
         \o (IF from = to THEN <<>> ELSE KeysOfRange(prefix, from + 1, to))

\* the values the map ms holds under the keys, concatenated in order
RECURSIVE ValuesUnder(_, _)
ValuesUnder(ms, keys) ==
    IF keys = <<>> THEN <<>>
    ELSE MapGet(ms, Head(keys)) \o ValuesUnder(ms, Tail(keys))

\* the last index h of from..limit such that ms holds every prefix+i for i in
\* from..h (from - 1 if it does not hold prefix+from)
RECURSIVE RunEnd(_, _, _, _)
RunEnd(ms, prefix, from, limit) ==
    IF from > limit THEN limit
    ELSE IF ~MapHas(ms, prefix \o Itoa(from)) THEN from - 1
    ELSE IF from = limit THEN limit
    ELSE RunEnd(ms, prefix, from + 1, limit)

\* the values at base, base+1, ... up to the first index without values or
\* to limit, and the keys probed for them: the key itself, these indices and
\* the first miss
IndexedScan(limit) ==
    LET l == lfn[1]
        ms == lfn[2].ms
        prefix == LookupKey \o l.sep
        h == RunEnd(ms, prefix, l.base, limit)
        hits == KeysOfRange(prefix, l.base, h)
        miss == IF h < limit THEN <<prefix \o Itoa(h + 1)>> ELSE <<>>
    IN  [values |-> ValuesUnder(ms, hits), probes |-> <<LookupKey>> \o hits \o miss]

DirectValues ==
    IF MapHas(lfn[2].ms, LookupKey) THEN MapGet(lfn[2].ms, LookupKey) ELSE <<>>

\* C6 as stated, for the indices that an int32 holds: for base >= 0 and an
\* inner lookup without errors, a direct hit is returned as it is and nothing
\* else is probed; otherwise the result is the concatenation of the values at
\* base, base+1, ... up to the first index whose inner result is empty, and
\* no index beyond that first miss is consulted.
C6_Original ==
    (LookupApplied /\ InnerIsMap /\ lfn[1].base >= 0) =>
        /\ lres.err = NilErr
        /\ IF DirectValues # <<>>
           THEN lres.values = DirectValues /\ Probed = <<LookupKey>>
           ELSE LET scan == IndexedScan(MaxInt32)
                IN  /\ lres.values = scan.values
                    /\ \A i \in 1..Len(Probed) :
                          \E j \in 1..Len(scan.probes) : Probed[i] = scan.probes[j]

\* C6, amended: the scan runs from base to the first index whose inner result
\* is empty or to MaxInt32 - 1, whichever comes first; no index from MaxInt32
\* on is probed.
C6_IndexedBelowMaxInt32 ==
    (LookupApplied /\ InnerIsMap /\ lfn[1].base >= 0) =>
        /\ lres.err = NilErr
        /\ IF DirectValues # <<>>
           THEN lres.values = DirectValues /\ Probed = <<LookupKey>>
           ELSE LET scan == IndexedScan(MaxInt32 - 1)
                IN  /\ lres.values = scan.values
                    /\ Probed = scan.probes

\* an indexed lookup without a direct hit that returned the values of index 0,
\* stopped at the missing index 1 and left the index 2, which the map holds
C6_Witness ==
    /\ LookupApplied
    /\ InnerIsMap
    /\ lfn[1].base = 0
    /\ ~MapHas(lfn[2].ms, LookupKey)
    /\ MapHas(lfn[2].ms, LookupKey \o lfn[1].sep \o <<"2">>)
    /\ lres.values = <<"0", "+">>
    /\ Probed = <<LookupKey, LookupKey \o lfn[1].sep \o <<"0">>,
                  LookupKey \o lfn[1].sep \o <<"1">>>>

----------------------------------------------------------------------------
(* Properties of the key functions *)

KeyApplied == kfn # <<>>

\* C7: WithPrefix(prefix, inner) applied to the empty name returns the empty
\* key and does not call inner.
C7_WithPrefixEmpty ==
    (KeyApplied /\ kfn[1].op = "WithPrefix" /\ kin = <<>>) =>
        /\ kres.key = <<>>
        /\ kres.calls = <<>>

\* WithPrefix with a non-empty prefix around SnakeCase, applied to the empty name
C7_Witness ==
    /\ kfn = KWithPrefix(PrefixSnake, KSnakeCase)
    /\ kin = <<>>
    /\ kres = KeyResult(<<>>, <<>>)

\* the Key is WithPrefix(p, D(X)) for a case decorator D and X an ignoreKeys
IsPrefixedIgnore(kf) ==
    /\ Len(kf) >= 3
    /\ kf[1].op = "WithPrefix"
    /\ kf[2].op \in {"Uppercased", "Lowercased"}
    /\ kf[3].op = "ignoreKeys"

\* C8: in a bulk operation whose Key is WithPrefix(p, D(X)), a flag for whose
\* name X returns the empty key is neither looked up nor passed to Set, and
\* keeps its value.
C8_IgnoredUnderPrefix ==
    (IsBulk /\ IsPrefixedIgnore(loader.Key)) =>
        \A n \in DOMAIN last.pre \cap loader.Key[3].keys :
            /\ ~LookedUp(n)
            /\ ~SetCalled(n)
            /\ flags[n] = last.pre[n]

\* the separator of a case function, and the runes it keeps
Separator(kf) ==
    CASE kf = KSnakeCase -> "_"
      [] kf = KDotCase   -> "."
      [] kf = KKebabCase -> "-"

Kept(kf, r) == isAlnum(r) \/ (kf = KDotCase /\ r = "-")

\* s with every maximal run of runes that are not kept replaced by one separator
RunsReplaced(kf, s) ==
    LET starts(i) == Kept(kf, s[i]) \/ i = 1 \/ Kept(kf, s[i - 1])
        positions == SelectSeq([i \in 1..Len(s) |-> i], starts)
    IN  [j \in 1..Len(positions) |->
            IF Kept(kf, s[positions[j]]) THEN s[positions[j]] ELSE Separator(kf)]

\* C9: SnakeCase, DotCase and KebabCase keep letters and digits (DotCase also
\* hyphens) in order, put one separator in place of every maximal run of
\* other runes, and never give two separators in a row.
C9_RunsCollapsed ==
    (KeyApplied /\ kfn \in CaseFuncs) =>
        /\ kres.key = RunsReplaced(kfn, kin)
        /\ \A i \in 1..(Len(kres.key) - 1) :
              ~(kres.key[i] = Separator(kfn) /\ kres.key[i + 1] = Separator(kfn))

\* SnakeCase of a string with a run of two different runes that are not
\* letters or digits
C9_Witness ==
    /\ kfn = KSnakeCase
    /\ kin = <<"a", "*", ".">>
    /\ kres.key = <<"a", "_">>

\* C10 as stated: each case function maps the empty string to its separator.
C10_Original ==
    (KeyApplied /\ kfn \in CaseFuncs /\ kin = <<>>) => kres.key = <<Separator(kfn)>>

\* C10, amended: each case function maps the empty string to the empty string.
C10_EmptyToEmpty ==
    (KeyApplied /\ kfn \in CaseFuncs /\ kin = <<>>) => kres.key = <<>>

\* SnakeCase applied to the empty string
C10_Witness ==
    /\ kfn = KSnakeCase
    /\ kin = <<>>
    /\ kres.key = <<>>

\* C11: snakePrefix(id) is U = ToUpper(SnakeCase(id)) followed by "_", with one
\* more "_" in front exactly when U starts with an ASCII digit; so it is never
\* empty, ends with "_" and never starts with a digit.
C11_SnakePrefix ==
    (KeyApplied /\ kfn = KSnakePrefix) =>
        LET U == ToUpper(RunsReplaced(KSnakeCase, kin)) \o <<"_">>
            p == kres.key
        IN  /\ p = (IF U[1] \in Digits THEN <<"_">> ELSE <<>>) \o U
            /\ p # <<>>
            /\ p[Len(p)] = "_"
            /\ p[1] \notin Digits
            /\ kin = <<>> => p = <<"_">>

\* snakePrefix of a name that starts with a digit, as "9town" does
C11_Witness ==
    /\ kfn = KSnakePrefix
    /\ kin = <<"7", "a">>
    /\ kres.key = <<"_", "7", "A", "_">>

----------------------------------------------------------------------------
(* Errors in the bulk operations *)

\* the declared flags in the order VisitAll enumerates them
VisitOrder == sortFlags(DOMAIN last.pre)

PosOf(n) == CHOOSE i \in 1..Len(VisitOrder) : VisitOrder[i] = n

\* the bulk operation does not pass over the flag called n
Eligible(n) ==
    /\ ~last.pre[n].skip
    /\ last.op = "SetMissing" => ~last.pre[n].actual

LookupFails(n) ==
    /\ KeyOf(loader.Key, n) # <<>>
    /\ EvalLookup(loader.Lookup, KeyOf(loader.Key, n)).err # NilErr

\* the Value of the flag called n returns nil from Set(v)
Accepts(n, v) == ValueSet(last.pre[n], v).ok

\* the indices of the values found for n that its Value rejects
RejectedAt(n) == {i \in 1..Len(FoundFor(n)) : ~Accepts(n, FoundFor(n)[i])}

FirstRejected(n) == CHOOSE i \in RejectedAt(n) : \A j \in RejectedAt(n) : i <= j

\* processing the flag called n gives an error
Fails(n) == Eligible(n) /\ (LookupFails(n) \/ RejectedAt(n) # {})

\* the flag set that the calls of f.Set in sets, made in order, leave
RECURSIVE Replay(_, _)
Replay(f, sets) ==
    IF sets = <<>> THEN f
    ELSE Replay(FlagSetSet(f, Head(sets).name, Head(sets).value).flags, Tail(sets))

\* the flag called n after all the values found for it were applied
AppliedTo(n) ==
    LET found == FoundFor(n)
        pre == last.pre[n]
    IN  [pre EXCEPT !.actual = TRUE,
                    !.value = IF pre.kind = "slice" THEN pre.value \o found
                              ELSE <<found[Len(found)]>>]

\* C12: in a bulk operation the first flag, in enumeration order, whose
\* lookup or Set fails ends the processing: the error returned is the error of
\* that flag, the flags before it hold what was assigned to them, the calls of
\* Set made are not undone, and no flag after it is keyed, looked up or set.
C12_FirstErrorStops ==
    (IsBulk /\ loader.Lookup # LNil) =>
        LET failing == {n \in DOMAIN last.pre : Fails(n)}
        IN  /\ last.err = NoError <=> failing = {}
            /\ flags = Replay(last.pre, last.sets)
            /\ failing # {} =>
                  LET f == CHOOSE n \in failing :
                              \A o \in failing : PosOf(n) <= PosOf(o)
                      key == KeyOf(loader.Key, f)
                  IN  /\ last.err = Error(IF LookupFails(f) THEN "error looking up"
                                          ELSE "unable to load", f, key)
                      /\ last.lookups[Len(last.lookups)] = [name |-> f, key |-> key]
                      /\ IF LookupFails(f) THEN ~SetCalled(f)
                         ELSE /\ SetsFor(last.sets, f)
                                    = SubSeq(FoundFor(f), 1, FirstRejected(f))
                              /\ last.sets[Len(last.sets)].name = f
                              /\ ~last.sets[Len(last.sets)].ok
                      /\ \A n \in DOMAIN last.pre :
                            /\ PosOf(n) < PosOf(f) =>
                                  IF Eligible(n) /\ FoundFor(n) # <<>>
                                  THEN /\ SetsFor(last.sets, n) = FoundFor(n)
                                       /\ flags[n] = AppliedTo(n)
                                  ELSE /\ ~SetCalled(n)
                                       /\ flags[n] = last.pre[n]
                            /\ PosOf(n) > PosOf(f) =>
                                  /\ n \notin {last.keyed[i] : i \in 1..Len(last.keyed)}
                                  /\ ~LookedUp(n)
                                  /\ ~SetCalled(n)
                                  /\ flags[n] = last.pre[n]

\* a bulk operation that assigned to a first flag, failed in Set on the second
\* value of the next flag, and left alone a third flag for which there are values
C12_Witness ==
    /\ IsBulk
    /\ last.err.kind = "unable to load"
    /\ last.err.name = NameA
    /\ SetsFor(last.sets, NameA) = <<"1", "x">>
    /\ NameB \in DOMAIN last.pre
    /\ flags[NameB].value = <<"2">>
    /\ flags[NameB] # last.pre[NameB]
    /\ NameAB \in DOMAIN last.pre
    /\ Eligible(NameAB)
    /\ FoundFor(NameAB) # <<>>
    /\ ~LookedUp(NameAB)
    /\ flags[NameAB] = last.pre[NameAB]

\* C13: SetOne with a name that the flag set does not declare returns the
\* "flag not found" error for that name, calls neither the Key function nor
\* the Lookup function nor Set, and leaves every declared flag as it was.
C13_SetOneNotFound ==
    (last.op = "SetOne" /\ last.name \notin DOMAIN last.pre) =>
        /\ last.err = Error("flag not found", last.name, <<>>)
        /\ last.keyed = <<>>
        /\ last.lookups = <<>>
        /\ last.sets = <<>>
        /\ flags = last.pre

\* SetOne of an undeclared name, by a Loader whose Lookup holds a value under
\* the key of that name, on a flag set that declares other flags
C13_Witness ==
    /\ last.op = "SetOne"
    /\ last.name = NameA
    /\ DOMAIN last.pre = {NameB, NameAB}
    /\ FoundFor(NameA) # <<>>
    /\ last.err.kind = "flag not found"
    /\ flags = last.pre

----------------------------------------------------------------------------
(* Two bulk operations at once *)

AllDone == \A g \in Goroutines : runs # <<>> /\ runs[g].pc = "done"

\* C14: when two bulk operations of one Loader, each on its own flag set,
\* have run in two goroutines with their steps interleaved in any way, each
\* flag set and each returned error is what the same operation gives when it
\* runs alone on the flag set as it was.
C14_InterleavedAsSequential ==
    AllDone =>
        \A g \in Goroutines :
            LET t == setFlags(loader, runs[g].pre, runs[g].merge)
            IN  /\ runs[g].flags = t.flags
                /\ runs[g].err = t.err

\* two operations that ran among each other's steps with keys made by
\* SnakeCase under a prefix: one assigned flags, the other returned an error
C14_Witness ==
    /\ AllDone
    /\ loader = Loader(KUppercased(KWithPrefix(PrefixSnake, KSnakeCase)), LookupRejected)
    /\ \A g \in Goroutines : runs[g].among
    /\ runs[1].err = NoError
    /\ runs[1].flags[NameAB].value = <<"1", "2">>
    /\ runs[2].err.kind = "unable to load"
    /\ runs[2].flags # runs[2].pre

----------------------------------------------------------------------------
(* Passes of several Loaders *)

\* the operation p assigned to the flag called x through f.Set
AssignedIn(p, x) == \E i \in 1..Len(p.sets) : p.sets[i].name = x /\ p.sets[i].ok

\* some pass before the last one assigned to the flag called x
AssignedEarlier(x) == \E j \in 1..(Len(passes) - 1) : AssignedIn(passes[j].run, x)

\* the last pass is a SetMissing: it passes over the flags that an earlier
\* pass of whatever Loader assigned, and sets only flags that nothing supplied
LaterSetMissingFillsGaps ==
    /\ \A x \in DOMAIN last.pre :
          AssignedEarlier(x) =>
              /\ last.pre[x].actual
              /\ ~LookedUp(x)
              /\ ~SetCalled(x)
              /\ flags[x] = last.pre[x]
    /\ \A x \in DOMAIN last.pre : SetCalled(x) => ~last.pre[x].actual

\* the last two passes are SetMissing of the same Loader
SetMissingTwice ==
    /\ Len(passes) >= 2
    /\ last.op = "SetMissing"
    /\ passes[Len(passes) - 1].run.op = "SetMissing"
    /\ passes[Len(passes) - 1].loader = loader

\* C15 as stated: a later SetMissing passes over every flag that an earlier
\* pass assigned, and a second SetMissing of the same Loader leaves every flag
\* as the first left it.
C15_Original ==
    (Len(passes) >= 2 /\ last.op = "SetMissing") =>
        /\ LaterSetMissingFillsGaps
        /\ SetMissingTwice => flags = last.pre

\* C15, amended: a flag to which an earlier pass (SetAll, SetMissing or SetOne
\* of any Loader) assigned through f.Set counts as supplied in every later
\* SetMissing, which neither looks it up nor sets it, and sets only flags that
\* nothing supplied before; a second SetMissing of the same Loader, after a
\* first one that returned no error, leaves every flag as the first left it.
C15_LayersByPrecedence ==
    (Len(passes) >= 2 /\ last.op = "SetMissing") =>
        /\ LaterSetMissingFillsGaps
        /\ (SetMissingTwice /\ passes[Len(passes) - 1].run.err = NoError) =>
              flags = last.pre

\* a SetAll of one Loader assigned to a flag; the SetMissing of another Loader,
\* which holds another value for that flag, left it and filled another flag
C15_Witness ==
    /\ Len(passes) = 2
    /\ passes[1].run.op = "SetAll"
    /\ passes[1].loader # loader
    /\ last.op = "SetMissing"
    /\ \E x, y \in DOMAIN last.pre :
          /\ AssignedIn(passes[1].run, x)
          /\ ~passes[1].run.pre[x].actual
          /\ FoundFor(x) # <<>>
          /\ FoundFor(x) # flags[x].value
          /\ flags[x] = last.pre[x]
          /\ SetCalled(y)
          /\ flags[y] # last.pre[y]

----------------------------------------------------------------------------
(* The values of one flag *)

\* the calls of f.Set for the flag called n, in order
RECURSIVE CallsFor(_, _)
CallsFor(sets, n) ==
    IF sets = <<>> THEN <<>>
    ELSE (IF Head(sets).name = n THEN <<Head(sets)>> ELSE <<>>)
         \o CallsFor(Tail(sets), n)

\* C16: for a flag whose lookup yields v1..vn, Set is called with v1, v2, ...
\* in that order up to the first value that Set rejects: the calls before it are
\* not undone, no later value is passed to Set, and the error for that flag is
\* returned. When Set rejects none, all n values are applied in order: a
\* single-valued flag holds vn, a list flag has v1..vn appended.
C16_ValuesInOrder ==
    last.op # "none" =>
        \A n \in DOMAIN last.pre :
            (LookedUp(n) /\ ~LookupFails(n)) =>
                LET found == FoundFor(n)
                IN  IF RejectedAt(n) = {}
                    THEN /\ SetsFor(last.sets, n) = found
                         /\ \A i \in 1..Len(CallsFor(last.sets, n)) :
                               CallsFor(last.sets, n)[i].ok
                         /\ flags[n] = IF found = <<>> THEN last.pre[n]
                                       ELSE AppliedTo(n)
                         /\ last.err.name # n
                    ELSE /\ SetsFor(last.sets, n) = SubSeq(found, 1, FirstRejected(n))
                         /\ last.err = Error("unable to load", n, KeyOf(loader.Key, n))
                         /\ flags[n] = Replay(last.pre, CallsFor(last.sets, n))[n]
                         /\ flags[n].actual
                               = (last.pre[n].actual \/ FirstRejected(n) > 1)

\* the second of three values found for an int flag was rejected after the
\* first was applied
C16_Witness ==
    /\ NameA \in DOMAIN last.pre
    /\ ~last.pre[NameA].actual
    /\ FoundFor(NameA) = <<"1", "x", "2">>
    /\ CallsFor(last.sets, NameA)
          = << [name |-> NameA, value |-> "1", ok |-> TRUE],
               [name |-> NameA, value |-> "x", ok |-> FALSE] >>
    /\ flags[NameA].actual
    /\ last.err = Error("unable to load", NameA, KeyOf(loader.Key, NameA))

----------------------------------------------------------------------------
(* Errors and termination of the indexed lookup *)

\* what the inner lookup returns for the i-th key probed
InnerAt(i) == EvalLookup(Tail(lfn), Probed[i])

\* C17: when the inner lookup returns an error for a key that the indexed
\* lookup probes, the direct key or a suffixed one, the indexed lookup returns
\* that error and no values, whatever earlier indices held, and that key is
\* the last it probes; it returns no error otherwise.
C17_InnerErrorReturned ==
    LookupApplied =>
        LET failed == {i \in 1..Len(Probed) : InnerAt(i).err # NilErr}
        IN  /\ Probed # <<>>
            /\ Probed[1] = LookupKey
            /\ failed = {} => lres.err = NilErr
            /\ failed # {} =>
                  /\ failed = {Len(Probed)}
                  /\ lres.err = InnerAt(Len(Probed)).err
                  /\ lres.values = <<>>

\* the inner lookup held values at index 0 and failed at index 1
C17_Witness ==
    /\ LookupApplied
    /\ lfn[1].base = 0
    /\ Probed = <<LookupKey, <<"a", "_", "0">>, <<"a", "_", "1">>>>
    /\ InnerAt(2).values # <<>>
    /\ InnerAt(3).err = TestErr
    /\ lres.err = TestErr
    /\ lres.values = <<>>

\* the number of suffixed keys probed
SuffixedProbes == Len(Probed) - 1

\* C18: when the inner lookup has nothing under the direct key, the indexed
\* lookup returns, having probed no suffixed key and found nothing if base < 0,
\* and otherwise having probed base, base+1, ... in order and none from MaxInt32
\* on, also when the inner lookup has a value under every suffixed key.
C18_ScanBounded ==
    (LookupApplied /\ InnerAt(1).err = NilErr /\ InnerAt(1).values = <<>>) =>
        LET base == lfn[1].base
            prefix == LookupKey \o lfn[1].sep
        IN  /\ Probed[1] = LookupKey
            /\ base < 0 =>
                  /\ SuffixedProbes = 0
                  /\ lres.values = <<>>
                  /\ lres.err = NilErr
            /\ base >= 0 =>
                  /\ SuffixedProbes <= MaxInt32 - base
                  /\ \A j \in 1..SuffixedProbes :
                        Probed[j + 1] = prefix \o Itoa(base + (j - 1))
                  /\ lfn[2].op = "everyIndex" =>
                        /\ SuffixedProbes = MaxInt32 - base
                        /\ Len(lres.values) = SuffixedProbes
                        /\ lres.err = NilErr

\* an inner lookup with a value under every suffixed key, scanned from
\* MaxInt32 - 2: two indices are probed and the scan stops
C18_Witness ==
    /\ LookupApplied
    /\ lfn = LWithIndexedLookup(LEveryIndex, <<"_">>, MaxInt32 - 2)
    /\ Probed = <<LookupKey,
                  LookupKey \o <<"_">> \o Itoa(MaxInt32 - 2),
                  LookupKey \o <<"_">> \o Itoa(MaxInt32 - 1)>>
    /\ lres.values = <<"+", "+">>
    /\ lres.err = NilErr

====
